---- MODULE Spec2Model ----
(***************************************************************************)
(* State-machine model of AnalysisPipeline                                 *)
(* (yt_astro_analysis/halo_analysis/analysis_pipeline.py).                 *)
(*                                                                         *)
(* Configuration (add_callback / add_filter / add_quantity / add_recipe)   *)
(* builds the action list; _run drives every worker (MPI rank) through the *)
(* chunks of the data source; _process_target runs one object through the  *)
(* action list; _save writes one file per rank.                            *)
(***************************************************************************)
EXTENDS Integers, Sequences, FiniteSets, TLC

\* ----------------------------------------------------------------- bounds
MaxCalls   == 2   \* configuration calls that change the pipeline
MaxWorkers == 2   \* largest communicator size (comm.size) considered
NumChunks  == 2   \* chunks delivered by data_source.chunks([], 'io')
ChunkLen   == 3   \* objects in the first chunk (later chunks hold one less each)
MaxRuns    == 1   \* calls of _run on the same pipeline

None == "None"

\* ------------------------------------------------------------ dictionaries
\* A Python dict is an insertion-ordered sequence of <<key, value>> pairs
\* with unique keys.
DictKeys(d) == {d[i][1] : i \in 1..Len(d)}
DictGet(d, k) == d[CHOOSE i \in 1..Len(d) : d[i][1] = k][2]
DictSet(d, k, v) ==
    IF k \in DictKeys(d)
    THEN [i \in 1..Len(d) |-> IF d[i][1] = k THEN <<k, v>> ELSE d[i]]
    ELSE Append(d, <<k, v>>)
RECURSIVE DictUpdate(_, _)
DictUpdate(d, other) ==
    IF other = <<>> THEN d
    ELSE DictUpdate(DictSet(d, Head(other)[1], Head(other)[2]), Tail(other))

\* ------------------------------------------------- external collaborators
\* Contents of the registries (halo_callbacks, halo_filters, halo_quantities,
\* halo_recipes): names that find() resolves.  Any other name fails.
callback_registry == {"sphere"}
filter_registry   == {"mass_filter", "my_filter"}
quantity_registry == {"center_of_mass"}
recipe_registry   == {"R", "R_bad"}

\* registry.find(name): the bound callable, or the lookup error.
find(registry, kind, name) ==
    IF name \in registry
    THEN [ok |-> TRUE,  fn |-> <<"callable", kind, name>>]
    ELSE [ok |-> FALSE, fn |-> <<>>]

\* A call of one of the add_* methods, as a recipe issues it.
Call(op, name, fds, ft) ==
    [op |-> op, name |-> name, from_data_source |-> fds, field_type |-> ft]

\* The body of a recipe: the add_* calls it issues on the pipeline, in order.
\* "R" is the recipe add_filter(X); add_quantity(Y); "R_bad" names a callback
\* that is in no registry after it has already added a filter.
RecipeCalls(recipe) ==
    IF recipe = "R"
    THEN << Call("add_filter", "my_filter", FALSE, None),
            Call("add_quantity", "center_of_mass", FALSE, None) >>
    ELSE << Call("add_filter", "my_filter", FALSE, None),
            Call("add_callback", "nope", FALSE, None) >>

\* ---------------------------------------------------------------- inputs
CallbackNames == {"sphere", "nope"}
FilterNames   == {"mass_filter", "my_filter", "nope"}
RecipeNames   == {"R", "R_bad", "nope"}
\* (key, from_data_source, field_type) of add_quantity; "virial_radius" is a
\* field of the chunk and no registered quantity, "center_of_mass" is a
\* registered quantity and no field.
QuantityInputs ==
    { <<"virial_radius", FALSE, None>>,   <<"virial_radius", FALSE, "halos">>,
      <<"virial_radius", TRUE, None>>,    <<"virial_radius", TRUE, "halos">>,
      <<"center_of_mass", FALSE, None>>,  <<"center_of_mass", FALSE, "halos">> }

VARIABLES
    actions,           \* self.actions
    quantities,        \* self.quantities
    field_quantities,  \* self.field_quantities
    last_call,         \* the call the last step made: op, args, raised, lookups
    size,              \* self.comm.size, fixed when the job is launched
    runs,              \* calls of _run made so far
    run_args,          \* (save_targets, save_catalog) of the current _run
    pc,                \* per rank: where the rank stands in _run
    chunk_i,           \* per rank: number of the chunk being iterated
    cursor,            \* per rank: how many of my_indices have been consumed
    field_data,        \* per rank: chunk.field_data of the rank's current chunk
    bcast_buf,         \* per chunk: what rank 0 has handed to comm.bcast
    catalog,           \* per rank: self.catalog
    target_list,       \* per rank: self.target_list
    files,             \* the output directory: filename -> written dataset
    calls,             \* history: configuration calls that changed the pipeline
    catalog_src,       \* history, per rank: (chunk, index) behind each catalog entry
    processed,         \* history, per rank: one record per _process_target call
    get_data_log       \* history: (rank, chunk) of every chunk.get_data call

pipeline_vars == <<actions, quantities, field_quantities>>
run_vars == <<size, runs, run_args, pc, chunk_i, cursor, field_data, bcast_buf,
              catalog, target_list, files, catalog_src, processed, get_data_log>>
vars == <<actions, quantities, field_quantities, last_call, size, runs, run_args,
          pc, chunk_i, cursor, field_data, bcast_buf, catalog, target_list, files,
          calls, catalog_src, processed, get_data_log>>

Pipeline == [actions |-> actions, quantities |-> quantities,
             field_quantities |-> field_quantities]

\* Result of a configuration call on pipeline p.
Result(p, raised, lookups) == [p |-> p, raised |-> raised, lookups |-> lookups]

\* -------------------------------------------------- configuration methods
\* Mutant: the action is appended before the lookup has succeeded.
add_callback_append_first(p, callback) ==
    LET r == find(callback_registry, "callback", callback) IN
    Result([p EXCEPT !.actions = Append(@, <<"callback", r.fn>>)],
           ~r.ok, << <<"callback", callback>> >>)

\* Mutant: the action is appended under a misspelt tag.
add_callback_mistagged(p, callback) ==
    LET r == find(callback_registry, "callback", callback) IN
    IF ~r.ok THEN Result(p, TRUE, << <<"callback", callback>> >>)
    ELSE Result([p EXCEPT !.actions = Append(@, <<"callbacks", r.fn>>)],
                FALSE, << <<"callback", callback>> >>)

add_callback(p, callback) ==
    LET r == find(callback_registry, "callback", callback) IN
    IF ~r.ok THEN Result(p, TRUE, << <<"callback", callback>> >>)
    ELSE Result([p EXCEPT !.actions = Append(@, <<"callback", r.fn>>)],
                FALSE, << <<"callback", callback>> >>)

\* Mutant: the filter is put in front of the actions already there.
add_filter_prepend(p, halo_filter) ==
    LET r == find(filter_registry, "filter", halo_filter) IN
    IF ~r.ok THEN Result(p, TRUE, << <<"filter", halo_filter>> >>)
    ELSE Result([p EXCEPT !.actions = << <<"filter", r.fn>> >> \o @],
                FALSE, << <<"filter", halo_filter>> >>)

add_filter(p, halo_filter) ==
    LET r == find(filter_registry, "filter", halo_filter) IN
    IF ~r.ok THEN Result(p, TRUE, << <<"filter", halo_filter>> >>)
    ELSE Result([p EXCEPT !.actions = Append(@, <<"filter", r.fn>>)],
                FALSE, << <<"filter", halo_filter>> >>)

\* Mutant: the key is recorded before the lookup, so that a failed lookup
\* leaves a key without an action.
add_quantity_key_first(p, key, from_data_source, field_type) ==
    IF ~from_data_source
    THEN LET r == find(quantity_registry, "quantity", key) IN
         IF ~r.ok THEN Result([p EXCEPT !.quantities = Append(@, key)],
                              TRUE, << <<"quantity", key>> >>)
         ELSE Result([p EXCEPT !.quantities = Append(@, key),
                               !.actions = Append(@, <<"quantity", <<key, r.fn>>>>)],
                     FALSE, << <<"quantity", key>> >>)
    ELSE LET quantity == IF field_type = None THEN <<key>>
                         ELSE <<field_type, key>> IN
         Result([p EXCEPT !.field_quantities = Append(@, quantity),
                          !.quantities = Append(@, key),
                          !.actions = Append(@, <<"quantity", <<key, quantity>>>>)],
                FALSE, <<>>)

add_quantity(p, key, from_data_source, field_type) ==
    IF ~from_data_source
    THEN LET r == find(quantity_registry, "quantity", key) IN
         IF ~r.ok THEN Result(p, TRUE, << <<"quantity", key>> >>)
         ELSE Result([p EXCEPT !.quantities = Append(@, key),
                               !.actions = Append(@, <<"quantity", <<key, r.fn>>>>)],
                     FALSE, << <<"quantity", key>> >>)
    ELSE LET quantity == IF field_type = None THEN <<key>>
                         ELSE <<field_type, key>> IN
         Result([p EXCEPT !.field_quantities = Append(@, quantity),
                          !.quantities = Append(@, key),
                          !.actions = Append(@, <<"quantity", <<key, quantity>>>>)],
                FALSE, <<>>)

\* One add_* call issued by a recipe body.
issue(p, c) ==
    IF c.op = "add_callback" THEN add_callback(p, c.name)
    ELSE IF c.op = "add_filter" THEN add_filter(p, c.name)
    ELSE add_quantity(p, c.name, c.from_data_source, c.field_type)

\* halo_recipe(self): the calls of the body run in order against the pipeline itself; the
\* first one that raises ends the recipe, what the earlier ones appended stays.
RECURSIVE halo_recipe(_, _, _)
halo_recipe(body, p, lookups) ==
    IF body = <<>> THEN Result(p, FALSE, lookups)
    ELSE LET r == issue(p, Head(body)) IN
         IF r.raised THEN Result(r.p, TRUE, lookups \o r.lookups)
         ELSE halo_recipe(Tail(body), r.p, lookups \o r.lookups)

\* Mutant: the recipe leaves an entry of its own in the action list.
add_recipe_traced(p, recipe) ==
    LET r == find(recipe_registry, "recipe", recipe) IN
    IF ~r.ok THEN Result(p, TRUE, << <<"recipe", recipe>> >>)
    ELSE LET x == halo_recipe(RecipeCalls(recipe), p, << <<"recipe", recipe>> >>) IN
         Result([x.p EXCEPT !.actions = Append(@, <<"recipe", r.fn>>)],
                x.raised, x.lookups)

add_recipe(p, recipe) ==
    LET r == find(recipe_registry, "recipe", recipe) IN
    IF ~r.ok THEN Result(p, TRUE, << <<"recipe", recipe>> >>)
    ELSE halo_recipe(RecipeCalls(recipe), p, << <<"recipe", recipe>> >>)

\* ----------------------------------------------------- the data source
Chunks == 1..NumChunks
Ranks == 0..(size - 1)

\* chunk[self.halo_field_type, self._target_id_field].size
ChunkSize(c) == IF ChunkLen >= c - 1 THEN ChunkLen - (c - 1) ELSE 0

\* Field values of the synthetic chunks.  particle_mass is held in base units
\* (the first chunk starts 5, 20, 15, 9, 30 in units of 1e12), virial_radius in
\* a scaled unit, with a different value at every index.
ParticleMass(c, i) ==
    LET t == <<5, 20, 15, 9, 30>> IN
    IF c = 1 /\ i < Len(t) THEN t[i + 1] ELSE ((7 * (c + i)) % 23) + 1

FieldValue(c, name, i) ==
    IF name = "particle_mass"
    THEN [mag |-> ParticleMass(c, i), unit |-> "base"]
    ELSE [mag |-> 100 * c + i, unit |-> "kilo"]

FieldArray(c, name) == [j \in 1..ChunkSize(c) |-> FieldValue(c, name, j - 1)]

\* chunk.get_data(fields): every requested field is read into chunk.field_data.
RECURSIVE get_data(_, _, _)
get_data(fd, c, fields) ==
    IF fields = <<>> THEN fd
    ELSE LET f == Head(fields) IN
         get_data(IF f \in DictKeys(fd) THEN fd
                  ELSE DictSet(fd, f, FieldArray(c, f[Len(f)])),
                  c, Tail(fields))

\* chunk[field]: the materialized array, read on demand when it is not there.
chunk_getitem(fd, c, f) ==
    IF f \in DictKeys(fd) THEN DictGet(fd, f) ELSE FieldArray(c, f[Len(f)])

\* ------------------------------------------------------ units (external)
has_units(v) == v.unit # "none"
convert_to_base(v) ==
    IF v.unit = "kilo" THEN [mag |-> v.mag * 1000, unit |-> "base"] ELSE v

\* ------------------------------------- registered callables (external)
\* A filter: mass_filter is the threshold particle_mass > 1e13 on the target's
\* own object; any other filter answers as its outcome o says.
filter_call(fn, c, index, o) ==
    IF fn[3] = "mass_filter"
    THEN IF ParticleMass(c, index) > 10 THEN "true" ELSE "false"
    ELSE o

\* A registered quantity returns a plain number (no units attribute).
quantity_call(fn, c, index) == [mag |-> 10 * c + index, unit |-> "none"]

\* What an action can do when invoked: the outcomes the run draws from.
OutcomesOf(a) ==
    IF a[1] = "callback" THEN {"ok", "raise"}
    ELSE IF a[1] = "filter"
         THEN IF a[2][3] = "mass_filter" THEN {"ok"} ELSE {"true", "false", "raise"}
    ELSE IF a[1] = "quantity"
         THEN IF a[2][2][1] = "callable" THEN {"ok", "raise"} ELSE {"ok"}
    ELSE {"raise"}

Outcomes(acts) ==
    {o \in [1..Len(acts) -> {"ok", "true", "false", "raise"}] :
        \A k \in 1..Len(acts) : o[k] \in OutcomesOf(acts[k])}

\* ---------------------------------------------------------- distribution
\* Mutant: every rank starts at index 0 instead of at its own job number.
parallel_objects_no_offset(n, sz, rank) ==
    LET cnt == IF n > 0 THEN (n + sz - 1) \div sz ELSE 0 IN
    [j \in 1..cnt |-> (j - 1) * sz]

\* parallel_objects(halo_indices, njobs=-1, dynamic=False) on rank `rank` of
\* `sz`: one job per rank, job r taking every sz-th index from r on, ascending.
parallel_objects(n, sz, rank) ==
    LET cnt == IF n > rank THEN (n - rank + sz - 1) \div sz ELSE 0 IN
    [j \in 1..cnt |-> rank + (j - 1) * sz]

\* ------------------------------------------------------- _process_target
callable(quantity) == quantity[1] = "callable"

\* Mutant: a false filter does not end the pass.
filter_break_never(target_filter) == FALSE

\* if not target_filter: break
filter_break(target_filter) == ~target_filter

\* Mutant: the field is read at the first index, not the target's.
read_field_first(fd, c, quantity, index) == chunk_getitem(fd, c, quantity)[1]

\* data_source[quantity][index]
read_field(fd, c, quantity, index) == chunk_getitem(fd, c, quantity)[index + 1]

\* Mutant: the catalog takes every target, whatever the filters said.
keep_in_catalog_always(target_filter) == TRUE

\* if target_filter: ... self.catalog.append(new_target.quantities)
keep_in_catalog(target_filter) == target_filter

\* Mutant: the entry goes to the front of the catalog.
catalog_prepend(cat, entry) == <<entry>> \o cat

\* self.catalog.append(new_target.quantities)
catalog_append(cat, entry) == Append(cat, entry)

\* Mutant: with save_targets every target is retained, survivor or not.
keep_target_all(save_targets, target_filter) == save_targets

\* if save_targets and target_filter: self.target_list.append(new_target)
keep_target(save_targets, target_filter) == save_targets /\ target_filter

NewTarget(c, index) ==
    [quantities |-> <<>>, target_filter |-> TRUE, trace |-> <<>>,
     raised |-> FALSE, stop |-> FALSE]

\* One pass of the body of `for action_type, action in self.actions`.
do_action(a, k, c, index, fd, st, o) ==
    IF a[1] = "callback" THEN
        IF o = "raise"
        THEN [st EXCEPT !.trace = Append(@, <<"callback", k, "raise">>),
                        !.raised = TRUE, !.stop = TRUE]
        ELSE [st EXCEPT !.trace = Append(@, <<"callback", k, "ok">>)]
    ELSE IF a[1] = "filter" THEN
        LET res == filter_call(a[2], c, index, o) IN
        IF res = "raise"
        THEN [st EXCEPT !.trace = Append(@, <<"filter", k, "raise">>),
                        !.raised = TRUE, !.stop = TRUE]
        ELSE [st EXCEPT !.trace = Append(@, <<"filter", k, res>>),
                        !.target_filter = (res = "true"),
                        !.stop = filter_break(res = "true")]
    ELSE IF a[1] = "quantity" THEN
        LET key == a[2][1]
            quantity == a[2][2] IN
        IF callable(quantity) THEN
            IF o = "raise"
            THEN [st EXCEPT !.trace = Append(@, <<"quantity", k, "raise">>),
                            !.raised = TRUE, !.stop = TRUE]
            ELSE [st EXCEPT !.trace = Append(@, <<"quantity", k, "ok">>),
                            !.quantities = DictSet(@, key, quantity_call(quantity, c, index))]
        ELSE [st EXCEPT !.trace = Append(@, <<"quantity", k, "ok">>),
                        !.quantities = DictSet(@, key, read_field(fd, c, quantity, index))]
    ELSE [st EXCEPT !.trace = Append(@, <<"unknown", k, "raise">>),
                    !.raised = TRUE, !.stop = TRUE]

RECURSIVE run_actions(_, _, _, _, _, _, _)
run_actions(acts, k, c, index, fd, st, out) ==
    IF k > Len(acts) \/ st.stop THEN st
    ELSE run_actions(acts, k + 1, c, index, fd,
                     do_action(acts[k], k, c, index, fd, st, out[k]), out)

\* Mutant: the quantities are appended as the actions left them.
normalize_skip(q, k) == [quantities |-> q, events |-> <<>>]

\* for quantity in new_target.quantities.values():
\*     if hasattr(quantity, "units"): quantity.convert_to_base()
RECURSIVE normalize(_, _)
normalize(q, k) ==
    IF k > Len(q) THEN [quantities |-> q, events |-> <<>>]
    ELSE LET v == q[k][2]
             rest == normalize(IF has_units(v)
                               THEN [q EXCEPT ![k] = <<q[k][1], convert_to_base(v)>>]
                               ELSE q, k + 1) IN
         [quantities |-> rest.quantities,
          events |-> (IF has_units(v) THEN << <<"convert_to_base", k, q[k][1]>> >>
                      ELSE <<>>) \o rest.events]

\* _process_target(index, index, save_targets, data_source=chunk) on a rank
\* whose catalog and target list are cat and tl; `out` says what each action
\* does when invoked.  Gives the new catalog and target list, the record of
\* what was invoked, and src extended like the catalog (which object each entry
\* came from).
_process_target(acts, c, index, save_targets, fd, cat, src, tl, out) ==
    LET st == run_actions(acts, 1, c, index, fd, NewTarget(c, index), out) IN
    IF st.raised
    THEN [raised |-> TRUE, catalog |-> cat, catalog_src |-> src, target_list |-> tl,
          rec |-> [chunk |-> c, index |-> index, trace |-> st.trace,
                   raised |-> TRUE, target_filter |-> st.target_filter]]
    ELSE LET keep == keep_in_catalog(st.target_filter)
             nq == IF keep THEN normalize(st.quantities, 1)
                   ELSE [quantities |-> st.quantities, events |-> <<>>]
             tr == st.trace \o nq.events
                   \o (IF keep THEN << <<"append", 0, "catalog">> >> ELSE <<>>)
             new_target == [index |-> index, object |-> index, chunk |-> c,
                            quantities |-> nq.quantities] IN
         [raised |-> FALSE,
          catalog |-> IF keep THEN catalog_append(cat, nq.quantities) ELSE cat,
          catalog_src |-> IF keep THEN catalog_append(src, <<c, index>>) ELSE src,
          target_list |-> IF keep_target(save_targets, st.target_filter)
                          THEN Append(tl, new_target) ELSE tl,
          rec |-> [chunk |-> c, index |-> index, trace |-> tr,
                   raised |-> FALSE, target_filter |-> st.target_filter]]

\* ------------------------------------------------------------------ _save
\* ds.basename of self.halos_ds, as its dot-separated parts ("halos_0.0.bin").
DsBasename == <<"halos_0", "0", "bin">>

\* basename[:basename.rfind('.')] when it holds a '.'
strip_extension(parts) ==
    IF Len(parts) > 1 THEN SubSeq(parts, 1, Len(parts) - 1) ELSE parts

\* Mutant: the rank is left out of the file name.
filename_no_rank(basename, rank) ==
    [dir |-> <<"analysis", basename>>, name |-> <<basename, 0, "h5">>]

\* os.path.join(output_dir, basename, "%s.%d.h5" % (basename, rank))
filename(basename, rank) ==
    [dir |-> <<"analysis", basename>>, name |-> <<basename, rank, "h5">>]

\* Mutant: the column is collected from the last catalog entry to the first.
column_reversed(cat, key) ==
    [j \in 1..Len(cat) |-> DictGet(cat[Len(cat) + 1 - j], key)]

\* [halo[key] for halo in self.catalog]
column(cat, key) == [j \in 1..Len(cat) |-> DictGet(cat[j], key)]

RECURSIVE columns(_, _, _)
columns(cat, keys, data) ==
    IF keys = <<>> THEN data
    ELSE columns(cat, Tail(keys), DictSet(data, Head(keys), column(cat, Head(keys))))

\* _save(self.halos_ds) on rank `rank`: the file it writes, or the KeyError
\* of a catalog entry that lacks a configured key.
_save(cat, qs, rank) ==
    LET basename == strip_extension(DsBasename)
        n_halos == Len(cat)
        missing == n_halos > 0 /\ \E j \in 1..Len(cat), k \in 1..Len(qs) :
                                      qs[k] \notin DictKeys(cat[j]) IN
    IF missing THEN [raised |-> TRUE, name |-> filename(basename, rank), content |-> <<>>]
    ELSE [raised |-> FALSE,
          name |-> filename(basename, rank),
          content |-> [data |-> IF n_halos > 0 THEN columns(cat, qs, <<>>) ELSE <<>>,
                       field_types |-> [k \in 1..Len(qs) |-> <<qs[k], ".">>],
                       data_type |-> "halo_catalog",
                       num_halos |-> n_halos]]

\* ------------------------------------------------------------------- Init
Init ==
    /\ actions = <<>>
    /\ quantities = <<>>
    /\ field_quantities = <<>>
    /\ last_call = [op |-> "__init__", args |-> <<>>, raised |-> FALSE, lookups |-> <<>>]
    /\ size \in 1..MaxWorkers
    /\ runs = 0
    /\ run_args = [save_targets |-> FALSE, save_catalog |-> FALSE]
    /\ pc = [r \in Ranks |-> "idle"]
    /\ chunk_i = [r \in Ranks |-> 0]
    /\ cursor = [r \in Ranks |-> 0]
    /\ field_data = [r \in Ranks |-> <<>>]
    /\ bcast_buf = [c \in Chunks |-> [sent |-> FALSE, data |-> <<>>]]
    /\ catalog = [r \in Ranks |-> <<>>]
    /\ target_list = [r \in Ranks |-> <<>>]
    /\ files = <<>>
    /\ calls = 0
    /\ catalog_src = [r \in Ranks |-> <<>>]
    /\ processed = [r \in Ranks |-> <<>>]
    /\ get_data_log = <<>>

\* ---------------------------------------------------------- configuration
Configure(op, args, r) ==
    /\ runs = 0
    /\ \A k \in Ranks : pc[k] = "idle"
    /\ r.p # Pipeline => calls < MaxCalls
    /\ calls' = IF r.p # Pipeline THEN calls + 1 ELSE calls
    /\ actions' = r.p.actions
    /\ quantities' = r.p.quantities
    /\ field_quantities' = r.p.field_quantities
    /\ last_call' = [op |-> op, args |-> args, raised |-> r.raised,
                     lookups |-> r.lookups]
    /\ UNCHANGED run_vars

AddCallback ==
    \E callback \in CallbackNames :
        Configure("add_callback", <<callback>>, add_callback(Pipeline, callback))

AddFilter ==
    \E halo_filter \in FilterNames :
        Configure("add_filter", <<halo_filter>>, add_filter(Pipeline, halo_filter))

AddQuantity ==
    \E a \in QuantityInputs :
        Configure("add_quantity", a, add_quantity(Pipeline, a[1], a[2], a[3]))

AddRecipe ==
    \E recipe \in RecipeNames :
        Configure("add_recipe", <<recipe>>, add_recipe(Pipeline, recipe))

\* --------------------------------------------------------------------- _run
\* Every rank of the job calls _run(save_targets, save_catalog); the
\* parallel_blocking_call barrier lets them into the body together.
StartRun ==
    \E save_targets \in BOOLEAN, save_catalog \in BOOLEAN :
        /\ runs < MaxRuns
        /\ \A r \in Ranks : pc[r] \in {"idle", "returned"}
        /\ runs' = runs + 1
        /\ run_args' = [save_targets |-> save_targets, save_catalog |-> save_catalog]
        /\ pc' = [r \in Ranks |-> "start"]
        /\ chunk_i' = [r \in Ranks |-> 0]
        /\ cursor' = [r \in Ranks |-> 0]
        /\ field_data' = [r \in Ranks |-> <<>>]
        /\ bcast_buf' = [c \in Chunks |-> [sent |-> FALSE, data |-> <<>>]]
        /\ processed' = [r \in Ranks |-> <<>>]
        /\ get_data_log' = <<>>
        /\ last_call' = [op |-> "_run", args |-> <<save_targets, save_catalog>>,
                         raised |-> FALSE, lookups |-> <<>>]
        /\ UNCHANGED <<pipeline_vars, calls, size, catalog, target_list, files, catalog_src>>

\* Mutant: every rank reads the chunk's fields itself.
chunk_entry_all_read(r) == "get_data"

\* Where a rank enters a chunk: rank 0 reads, the others go to the broadcast.
chunk_entry(r) ==
    IF r = 0 THEN "get_data" ELSE IF size > 1 THEN "bcast" ELSE "process"

\* self.catalog = []; if save_targets: self.target_list = []; first chunk.
RunInit(r) ==
    /\ pc[r] = "start"
    /\ catalog' = [catalog EXCEPT ![r] = <<>>]
    /\ catalog_src' = [catalog_src EXCEPT ![r] = <<>>]
    /\ target_list' = IF run_args.save_targets
                      THEN [target_list EXCEPT ![r] = <<>>] ELSE target_list
    /\ chunk_i' = [chunk_i EXCEPT ![r] = 1]
    /\ cursor' = [cursor EXCEPT ![r] = 0]
    /\ field_data' = [field_data EXCEPT ![r] = <<>>]
    /\ pc' = [pc EXCEPT ![r] = chunk_entry(r)]
    /\ UNCHANGED <<pipeline_vars, calls, last_call, size, runs, run_args, bcast_buf, files,
                   processed, get_data_log>>

\* if self.comm.rank == 0: chunk.get_data(self.field_quantities)
GetData(r) ==
    /\ pc[r] = "get_data"
    /\ field_data' = [field_data EXCEPT
                         ![r] = get_data(@, chunk_i[r], field_quantities)]
    /\ get_data_log' = Append(get_data_log, <<r, chunk_i[r]>>)
    /\ pc' = [pc EXCEPT ![r] = IF size > 1 THEN "bcast" ELSE "process"]
    /\ UNCHANGED <<pipeline_vars, calls, last_call, size, runs, run_args, chunk_i, cursor,
                   bcast_buf, catalog, target_list, files, catalog_src, processed>>

\* Mutant: no rank waits for the root's data.
bcast_ready_always(r) == TRUE

\* Whether rank r's comm.bcast(chunk.field_data, root=0) can return: the root
\* hands its data over and goes on, any other rank returns once the root has.
bcast_ready(r) == r = 0 \/ bcast_buf[chunk_i[r]].sent

\* fdata = self.comm.comm.bcast(chunk.field_data, root=0)
\* chunk.field_data.update(fdata)
Bcast(r) ==
    /\ pc[r] = "bcast"
    /\ bcast_ready(r)
    /\ LET c == chunk_i[r]
           fdata == IF r = 0 THEN field_data[r] ELSE bcast_buf[c].data IN
       /\ bcast_buf' = IF r = 0
                       THEN [bcast_buf EXCEPT ![c] = [sent |-> TRUE, data |-> fdata]]
                       ELSE bcast_buf
       /\ field_data' = [field_data EXCEPT ![r] = DictUpdate(@, fdata)]
    /\ pc' = [pc EXCEPT ![r] = "process"]
    /\ UNCHANGED <<pipeline_vars, calls, last_call, size, runs, run_args, chunk_i, cursor,
                   catalog, target_list, files, catalog_src, processed, get_data_log>>

\* Mutant: the caller's njobs reaches parallel_objects; with one job every
\* rank belongs to the one work group and iterates over all the indices.
my_indices_caller_njobs(r) ==
    IF last_call.op = "run" /\ last_call.args[3] = 1
    THEN [j \in 1..ChunkSize(chunk_i[r]) |-> j - 1]
    ELSE parallel_objects(ChunkSize(chunk_i[r]), size, r)

my_indices(r) == parallel_objects(ChunkSize(chunk_i[r]), size, r)

\* Mutant: the loop swallows the exception and goes on to the next index.
after_target_continue(raised) == "process"

\* What the loop does after _process_target: an exception leaves _run.
after_target(raised) == IF raised THEN "aborted" ELSE "process"

\* for my_index in my_indices: self._process_target(my_index, my_index, ...)
ProcessTarget(r) ==
    /\ pc[r] = "process"
    /\ cursor[r] < Len(my_indices(r))
    /\ \E out \in Outcomes(actions) :
         LET index == my_indices(r)[cursor[r] + 1]
             res == _process_target(actions, chunk_i[r], index, run_args.save_targets,
                                    field_data[r], catalog[r], catalog_src[r],
                                    target_list[r], out) IN
         /\ catalog' = [catalog EXCEPT ![r] = res.catalog]
         /\ catalog_src' = [catalog_src EXCEPT ![r] = res.catalog_src]
         /\ target_list' = [target_list EXCEPT ![r] = res.target_list]
         /\ processed' = [processed EXCEPT ![r] = Append(@, res.rec)]
         /\ pc' = [pc EXCEPT ![r] = after_target(res.raised)]
    /\ cursor' = [cursor EXCEPT ![r] = @ + 1]
    /\ UNCHANGED <<pipeline_vars, calls, last_call, size, runs, run_args, chunk_i,
                   field_data, bcast_buf, files, get_data_log>>

\* my_indices is exhausted: parallel_objects ends in a barrier of all ranks.
EndObjects(r) ==
    /\ pc[r] = "process"
    /\ cursor[r] = Len(my_indices(r))
    /\ pc' = [pc EXCEPT ![r] = "barrier"]
    /\ UNCHANGED <<pipeline_vars, calls, last_call, size, runs, run_args, chunk_i, cursor,
                   field_data, bcast_buf, catalog, target_list, files, catalog_src,
                   processed, get_data_log>>

\* Rank v has reached the barrier that ends chunk c.
arrived(v, c) ==
    \/ chunk_i[v] > c
    \/ chunk_i[v] = c /\ pc[v] \in {"barrier", "save", "exit_barrier", "returned"}

\* The barrier opens; the chunk loop goes to its next chunk or ends.
NextChunk(r) ==
    /\ pc[r] = "barrier"
    /\ \A v \in Ranks : arrived(v, chunk_i[r])
    /\ IF chunk_i[r] < NumChunks
       THEN /\ chunk_i' = [chunk_i EXCEPT ![r] = @ + 1]
            /\ cursor' = [cursor EXCEPT ![r] = 0]
            /\ field_data' = [field_data EXCEPT ![r] = <<>>]
            /\ pc' = [pc EXCEPT ![r] = chunk_entry(r)]
       ELSE /\ pc' = [pc EXCEPT ![r] = "save"]
            /\ UNCHANGED <<chunk_i, cursor, field_data>>
    /\ UNCHANGED <<pipeline_vars, calls, last_call, size, runs, run_args, bcast_buf, catalog,
                   target_list, files, catalog_src, processed, get_data_log>>

\* if save_catalog: self._save(self.halos_ds)
Save(r) ==
    /\ pc[r] = "save"
    /\ IF run_args.save_catalog
       THEN LET w == _save(catalog[r], quantities, r) IN
            /\ files' = IF w.raised THEN files ELSE DictSet(files, w.name, w.content)
            /\ pc' = [pc EXCEPT ![r] = IF w.raised THEN "aborted" ELSE "exit_barrier"]
       ELSE /\ pc' = [pc EXCEPT ![r] = "exit_barrier"]
            /\ UNCHANGED files
    /\ UNCHANGED <<pipeline_vars, calls, last_call, size, runs, run_args, chunk_i, cursor,
                   field_data, bcast_buf, catalog, target_list, catalog_src, processed,
                   get_data_log>>

\* The parallel_blocking_call barrier after the body: _run returns.
Return(r) ==
    /\ pc[r] = "exit_barrier"
    /\ \A v \in Ranks : pc[v] \in {"exit_barrier", "returned"}
    /\ pc' = [pc EXCEPT ![r] = "returned"]
    /\ UNCHANGED <<pipeline_vars, calls, last_call, size, runs, run_args, chunk_i, cursor,
                   field_data, bcast_buf, catalog, target_list, files, catalog_src,
                   processed, get_data_log>>

\* njobs values a caller may ask for: one job per worker (-1), one job, two.
CallerNjobs == {-1, 1, 2}

\* Every rank enters _run(save_targets, save_catalog) through the
\* parallel_blocking_call barrier; `call` is the call that led there.
enter_run(save_targets, save_catalog, call) ==
    /\ \A r \in Ranks : pc[r] \in {"idle", "returned"}
    /\ runs' = runs + 1
    /\ run_args' = [save_targets |-> save_targets, save_catalog |-> save_catalog]
    /\ pc' = [r \in Ranks |-> "start"]
    /\ chunk_i' = [r \in Ranks |-> 0]
    /\ cursor' = [r \in Ranks |-> 0]
    /\ field_data' = [r \in Ranks |-> <<>>]
    /\ bcast_buf' = [c \in Chunks |-> [sent |-> FALSE, data |-> <<>>]]
    /\ processed' = [r \in Ranks |-> <<>>]
    /\ get_data_log' = <<>>
    /\ last_call' = call
    /\ UNCHANGED <<pipeline_vars, calls, size, catalog, target_list, files, catalog_src>>

\* The outer run call of a caller that holds njobs and dynamic settings: it
\* can hand _run nothing but save_targets and save_catalog, the only
\* parameters _run has.
OuterRun ==
    \E njobs \in CallerNjobs, dynamic \in BOOLEAN,
       save_targets \in BOOLEAN, save_catalog \in BOOLEAN :
        /\ runs < MaxRuns
        /\ enter_run(save_targets, save_catalog,
                     [op |-> "run",
                      args |-> <<save_targets, save_catalog, njobs, dynamic>>,
                      raised |-> FALSE, lookups |-> <<>>])

\* Runs started by such a caller on the pipeline as constructed.
NextOuterRun ==
    \/ OuterRun
    \/ \E r \in Ranks : RunInit(r)
    \/ \E r \in Ranks : GetData(r)
    \/ \E r \in Ranks : Bcast(r)
    \/ \E r \in Ranks : ProcessTarget(r)
    \/ \E r \in Ranks : EndObjects(r)
    \/ \E r \in Ranks : NextChunk(r)
    \/ \E r \in Ranks : Save(r)
    \/ \E r \in Ranks : Return(r)

SpecOuterRun == Init /\ [][NextOuterRun]_vars

\* _run called again on the same pipeline, up to MaxReruns times in all.
MaxReruns == 2

StartRunAgain ==
    \E save_targets \in BOOLEAN, save_catalog \in BOOLEAN :
        /\ runs < MaxReruns
        /\ enter_run(save_targets, save_catalog,
                     [op |-> "_run", args |-> <<save_targets, save_catalog>>,
                      raised |-> FALSE, lookups |-> <<>>])

\* A pipeline of at most one filter that is run more than once.
NextRerun ==
    \/ (calls = 0 /\ AddFilter)
    \/ StartRunAgain
    \/ \E r \in Ranks : RunInit(r)
    \/ \E r \in Ranks : GetData(r)
    \/ \E r \in Ranks : Bcast(r)
    \/ \E r \in Ranks : ProcessTarget(r)
    \/ \E r \in Ranks : EndObjects(r)
    \/ \E r \in Ranks : NextChunk(r)
    \/ \E r \in Ranks : Save(r)
    \/ \E r \in Ranks : Return(r)

SpecRerun == Init /\ [][NextRerun]_vars

\* The configuration calls alone: the pipeline before its first run.
NextConfig ==
    \/ AddCallback
    \/ AddFilter
    \/ AddQuantity
    \/ AddRecipe

SpecConfig == Init /\ [][NextConfig]_vars

Next ==
    \/ NextConfig
    \/ StartRun
    \/ \E r \in Ranks : RunInit(r)
    \/ \E r \in Ranks : GetData(r)
    \/ \E r \in Ranks : Bcast(r)
    \/ \E r \in Ranks : ProcessTarget(r)
    \/ \E r \in Ranks : EndObjects(r)
    \/ \E r \in Ranks : NextChunk(r)
    \/ \E r \in Ranks : Save(r)
    \/ \E r \in Ranks : Return(r)

Spec == Init /\ [][Next]_vars

\* ================================================================ claims
\* Helpers of the statements below.
Obj(rec) == <<rec.chunk, rec.index>>
ObjsOf(recs) == [j \in 1..Len(recs) |-> Obj(recs[j])]
FilterPositions == {k \in 1..Len(actions) : actions[k][1] = "filter"}
Events(rec) == {rec.trace[j] : j \in 1..Len(rec.trace)}
\* every filter of the action list was invoked on the target and returned true
PassedAll(rec) == \A k \in FilterPositions : <<"filter", k, "true">> \in Events(rec)
\* some filter returned false on the target
FailedSome(rec) == \E k \in FilterPositions : <<"filter", k, "false">> \in Events(rec)
Survivors(r) == ObjsOf(SelectSeq(processed[r], PassedAll))
InRun(r) == pc[r] \in {"get_data", "bcast", "process", "barrier", "save",
                       "exit_barrier", "returned", "aborted"}

\* C1: after _run has completed on a rank, its catalog holds one entry for
\* exactly the objects the rank processed on which every filter returned true,
\* in processing order; an object on which some filter returned false has no
\* entry, wherever that filter stands in the action list.
C1_CatalogHoldsExactlyPassing ==
    \A r \in Ranks :
        pc[r] = "returned" =>
            /\ catalog_src[r] = Survivors(r)
            /\ Len(catalog[r]) = Len(catalog_src[r])
            /\ \A j \in 1..Len(processed[r]) :
                   FailedSome(processed[r][j]) =>
                       \A m \in 1..Len(catalog_src[r]) :
                           catalog_src[r][m] # Obj(processed[r][j])

\* A completed run whose second action is a filter that rejected one object
\* after the first filter had passed it, and that kept another object.
C1_Witness ==
    \E r \in Ranks :
        /\ pc[r] = "returned"
        /\ Len(actions) = 2 /\ actions[1][1] = "filter" /\ actions[2][1] = "filter"
        /\ \E j \in 1..Len(processed[r]) :
               <<"filter", 2, "false">> \in Events(processed[r][j])
        /\ catalog[r] # <<>>

\* C2: once a filter has returned false on a target nothing more is invoked
\* for that target: the false result is the last event of the target's pass
\* (no later callback, filter or quantity, no normalization, no append).
C2_ShortCircuit ==
    \A r \in Ranks : \A j \in 1..Len(processed[r]) :
        LET tr == processed[r][j].trace IN
        \A e \in 1..Len(tr) :
            (tr[e][1] = "filter" /\ tr[e][3] = "false") => e = Len(tr)

\* Filters F1, F2 in this order, F1 false on a target: F2 was not invoked.
C2_Witness ==
    \E r \in Ranks : \E j \in 1..Len(processed[r]) :
        /\ Len(actions) = 2 /\ actions[1][1] = "filter" /\ actions[2][1] = "filter"
        /\ processed[r][j].trace = << <<"filter", 1, "false">> >>

\* Largest chunk and communicator for which the index distribution alone is
\* checked (the 17 indices over 4 workers of the specification are among them).
PartN == 17
PartW == 4

\* the subsets of 0..n-1 handed to the ranks of a communicator of sz ranks
Assigned(n, sz, rank) ==
    {parallel_objects(n, sz, rank)[j] : j \in 1..Len(parallel_objects(n, sz, rank))}
IsPartition(n, sz) ==
    /\ \A i \in 0..(n - 1) :
           Cardinality({rank \in 0..(sz - 1) : i \in Assigned(n, sz, rank)}) = 1
    /\ \A rank \in 0..(sz - 1) :
           /\ Assigned(n, sz, rank) \subseteq 0..(n - 1)
           /\ Cardinality(Assigned(n, sz, rank)) = Len(parallel_objects(n, sz, rank))
PartitionAll == \A n \in 0..PartN : \A sz \in 1..PartW : IsPartition(n, sz)

\* how many _process_target calls the run has made for object (c, i)
TimesProcessed(c, i) ==
    Cardinality({<<r, j>> \in Ranks \X (1..(NumChunks * ChunkLen)) :
                    j <= Len(processed[r]) /\ Obj(processed[r][j]) = <<c, i>>})

\* C3: the index subsets of the ranks partition 0..n-1 for every n and worker
\* count; in a run no object is processed twice or by two ranks, a rank
\* processes only indices assigned to it, and once every rank has left the
\* chunk loop every index of every chunk has been processed exactly once.
C3_IndicesPartitioned ==
    /\ PartitionAll
    /\ \A c \in Chunks : \A i \in 0..(ChunkSize(c) - 1) :
           /\ TimesProcessed(c, i) <= 1
           /\ (\A r \in Ranks : pc[r] \in {"save", "exit_barrier", "returned"})
                  => TimesProcessed(c, i) = 1
    /\ \A r \in Ranks : \A j \in 1..Len(processed[r]) :
           processed[r][j].index \in
               Assigned(ChunkSize(processed[r][j].chunk), size, r)

\* Two ranks have finished a run over a chunk of three objects and each has
\* processed some of them.
C3_Witness ==
    /\ size = 2
    /\ \A r \in Ranks : pc[r] = "returned" /\ processed[r] # <<>>
    /\ ChunkSize(1) >= 3

\* Rank v has come out of its broadcast of chunk c.
BcastDone(v, c) ==
    \/ chunk_i[v] > c
    \/ chunk_i[v] = c /\ pc[v] \in {"process", "barrier", "save", "exit_barrier",
                                     "returned", "aborted"}
\* Rank r has called _process_target for an object of chunk c.
HasBegun(r, c) == \E j \in 1..Len(processed[r]) : processed[r][j].chunk = c

\* C4 as stated: in a multi-worker run no rank processes an object of a chunk
\* before every rank has come out of the chunk's broadcast, and outside the
\* broadcast no rank ever has to wait for another one.
C4_BcastCompleteForAllFirst ==
    size > 1 =>
        /\ \A c \in Chunks : \A r \in Ranks :
               HasBegun(r, c) => \A v \in Ranks : BcastDone(v, c)
        /\ \A r \in Ranks :
               /\ pc[r] = "barrier" => \A v \in Ranks : arrived(v, chunk_i[r])
               /\ pc[r] = "exit_barrier" =>
                      \A v \in Ranks : pc[v] \in {"exit_barrier", "returned"}

\* C4 (amended): in a multi-worker run a rank processes objects of a chunk only
\* after rank 0 has read the chunk's fields and handed them to the broadcast and
\* the rank itself has come out of the broadcast, so that its chunk holds the
\* materialized field data while it processes.
C4_OwnBcastBeforeProcessing ==
    size > 1 =>
        \A r \in Ranks :
            /\ \A c \in Chunks :
                   HasBegun(r, c) =>
                       /\ bcast_buf[c].sent
                       /\ \E j \in 1..Len(get_data_log) : get_data_log[j] = <<0, c>>
            /\ pc[r] = "process" =>
                   /\ bcast_buf[chunk_i[r]].sent
                   /\ field_data[r] = get_data(<<>>, chunk_i[r], field_quantities)

\* Rank 1 of two processes the second chunk with a field quantity configured.
C4_Witness ==
    /\ size = 2
    /\ field_quantities # <<>>
    /\ pc[1] = "process" /\ chunk_i[1] = 2
    /\ HasBegun(1, 1)

LastRec(recs) == recs[Len(recs)]
\* the files of the output directory that carry rank r in their name
WrittenBy(r, fs) == LET mine(e) == e[1].name[2] = r IN SelectSeq(fs, mine)
\* this step is a _process_target call of rank r in which an action raised
Raises(r) ==
    /\ Len(processed'[r]) = Len(processed[r]) + 1
    /\ LastRec(processed'[r]).raised

\* C5: a step in which an action raises invokes every action at most once, the
\* raising one last, leaves the rank's catalog and target list as they were and
\* writes no file, and ends the rank's run; from then on the rank processes no
\* object, changes neither catalog nor target list and never writes its file.
C5_RaiseAbortsRun ==
    [][\A r \in Ranks :
         /\ Raises(r) =>
              /\ pc'[r] = "aborted"
              /\ catalog'[r] = catalog[r]
              /\ target_list'[r] = target_list[r]
              /\ files' = files
              /\ LET tr == LastRec(processed'[r]).trace IN
                 /\ tr[Len(tr)][3] = "raise"
                 /\ \A a \in 1..Len(tr) : \A b \in 1..Len(tr) :
                        a < b => tr[a][2] < tr[b][2]
         /\ pc[r] = "aborted" =>
              /\ pc'[r] = "aborted"
              /\ processed'[r] = processed[r]
              /\ catalog'[r] = catalog[r]
              /\ target_list'[r] = target_list[r]
              /\ WrittenBy(r, files') = WrittenBy(r, files)
      ]_vars

\* A run with save_targets and save_catalog in which a rank kept one object,
\* met a raising action on the next and left a third one unprocessed.
C5_Witness ==
    \E r \in Ranks :
        /\ pc[r] = "aborted"
        /\ run_args.save_targets /\ run_args.save_catalog
        /\ Len(processed[r]) >= 2 /\ LastRec(processed[r]).raised
        /\ catalog[r] # <<>>
        /\ cursor[r] < Len(my_indices(r))

\* the calls of a recipe body issued directly, one after the other
RECURSIVE DirectCalls(_, _)
DirectCalls(body, p) ==
    IF body = <<>> THEN Result(p, FALSE, <<>>)
    ELSE LET r == issue(p, Head(body)) IN
         IF r.raised THEN r ELSE DirectCalls(Tail(body), r.p)
PipelineAfter == [actions |-> actions', quantities |-> quantities',
                  field_quantities |-> field_quantities']
FailedAdd == last_call'.op \in {"add_callback", "add_filter", "add_quantity", "add_recipe"}
                 /\ last_call'.raised

\* C6 as stated: a configuration call in which a registry lookup fails leaves
\* actions, quantities and field_quantities as they were, also when the lookup
\* fails inside a recipe that has already issued add_* calls.
C6_FailedLookupLeavesPipeline ==
    [][FailedAdd => PipelineAfter = Pipeline]_vars

\* C6 (amended): a failed lookup of add_callback, add_filter, add_quantity or
\* of the recipe name leaves the pipeline as it was; a lookup that fails inside
\* a recipe body leaves the pipeline as the recipe's earlier calls made it, and
\* the failing call appends nothing.
C6_FailedLookupKeepsEarlierCalls ==
    [][FailedAdd =>
         IF last_call'.op = "add_recipe" /\ last_call'.args[1] \in recipe_registry
         THEN LET body == RecipeCalls(last_call'.args[1]) IN
              \E n \in 0..(Len(body) - 1) :
                  LET before == DirectCalls(SubSeq(body, 1, n), Pipeline) IN
                  /\ ~before.raised
                  /\ issue(before.p, body[n + 1]).raised
                  /\ PipelineAfter = before.p
         ELSE PipelineAfter = Pipeline
      ]_vars

\* add_recipe("R_bad") has failed on a pipeline that held one action: the
\* filter the recipe added before its failing lookup is there.
C6_Witness ==
    /\ last_call.op = "add_recipe" /\ last_call.args = <<"R_bad">> /\ last_call.raised
    /\ Len(actions) = 2

\* C7: add_quantity with a field_type appends Quantity(key, (field_type, key)),
\* adds (field_type, key) to field_quantities and looks nothing up.
C7_FieldTypeMeansFieldQuantity ==
    [][(last_call'.op = "add_quantity" /\ last_call'.args[3] # None) =>
         LET key == last_call'.args[1]
             ft == last_call'.args[3] IN
         /\ actions' = Append(actions, <<"quantity", <<key, <<ft, key>>>>>>)
         /\ field_quantities' = Append(field_quantities, <<ft, key>>)
         /\ last_call'.lookups = <<>>
      ]_vars

\* C8: add_recipe(R) leaves actions, quantities and field_quantities as the
\* calls of R issued directly in the same order leave them (for the recipe
\* "R": add_filter then add_quantity), and changes nothing else.
C8_RecipeIsItsCalls ==
    [][(last_call'.op = "add_recipe" /\ ~last_call'.raised) =>
         /\ PipelineAfter = DirectCalls(RecipeCalls(last_call'.args[1]), Pipeline).p
         /\ last_call'.args[1] = "R" =>
                PipelineAfter =
                    add_quantity(add_filter(Pipeline, "my_filter").p,
                                 "center_of_mass", FALSE, None).p
         /\ UNCHANGED run_vars
      ]_vars

\* add_recipe("R") has run on a pipeline that already held an action.
C8_Witness ==
    /\ last_call.op = "add_recipe" /\ last_call.args = <<"R">> /\ ~last_call.raised
    /\ Len(actions) = 3

Before(a, b) == a[1] < b[1] \/ (a[1] = b[1] /\ a[2] < b[2])
Ascending(objs) == \A j \in 1..(Len(objs) - 1) : Before(objs[j], objs[j + 1])
Appended(rec) == <<"append", 0, "catalog">> \in Events(rec)
NumObjects == Cardinality({<<c, i>> \in Chunks \X (0..ChunkLen) : i < ChunkSize(c)})

\* C9: a rank processes its objects in ascending (chunk, index) order and its
\* catalog holds the kept ones in that order, each entry carrying the values
\* of its own object; a single worker without filters ends with one entry per
\* object, the i-th entry of the first chunk belonging to index i.
C9_CatalogInProcessingOrder ==
    \A r \in Ranks :
        /\ Ascending(ObjsOf(processed[r]))
        /\ InRun(r) =>
             /\ catalog_src[r] = ObjsOf(SelectSeq(processed[r], Appended))
             /\ Len(catalog[r]) = Len(catalog_src[r])
             /\ \A m \in 1..Len(catalog[r]) :
                    "center_of_mass" \in DictKeys(catalog[r][m]) =>
                        DictGet(catalog[r][m], "center_of_mass") =
                            quantity_call(<<>>, catalog_src[r][m][1], catalog_src[r][m][2])
        /\ (size = 1 /\ pc[r] = "returned" /\ FilterPositions = {}) =>
             /\ Len(catalog[r]) = NumObjects
             /\ \A i \in 0..(ChunkSize(1) - 1) : catalog_src[r][i + 1] = <<1, i>>

\* A single worker has finished a run without filters over all the objects,
\* with a registered quantity in the action list.
C9_Witness ==
    /\ size = 1 /\ pc[0] = "returned" /\ FilterPositions = {}
    /\ Len(catalog[0]) = NumObjects /\ NumObjects >= 3
    /\ "center_of_mass" \in DictKeys(catalog[0][1])

ThresholdAndField(f) ==
    actions = << <<"filter", <<"callable", "filter", "mass_filter">>>>,
                 <<"quantity", <<"virial_radius", f>>>> >>
MassPasses(rec) == ParticleMass(rec.chunk, rec.index) > 10

\* C10: with the threshold filter and one direct-field quantity the catalog of
\* a rank holds one entry per object of the rank that passes the threshold, in
\* index order, and each entry maps the key to the chunk's field value at the
\* object's own index (held in base units once the entry is appended); the
\* first chunk, masses 5, 20, 15, gives the entries of indices 1 and 2.
C10_FieldValueOfOwnIndex ==
    (ThresholdAndField(<<"halos", "virial_radius">>) \/ ThresholdAndField(<<"virial_radius">>)) =>
        \A r \in Ranks :
            InRun(r) =>
                /\ catalog_src[r] = ObjsOf(SelectSeq(processed[r], MassPasses))
                /\ Len(catalog[r]) = Len(catalog_src[r])
                /\ \A m \in 1..Len(catalog[r]) :
                       LET c == catalog_src[r][m][1]
                           i == catalog_src[r][m][2] IN
                       catalog[r][m] =
                           << <<"virial_radius",
                                convert_to_base(FieldArray(c, "virial_radius")[i + 1])>> >>
                /\ (size = 1 /\ chunk_i[r] > 1 /\ ChunkSize(1) >= 3) =>
                       /\ Len(catalog_src[r]) >= 2
                       /\ catalog_src[r][1] = <<1, 1>> /\ catalog_src[r][2] = <<1, 2>>

\* The single worker has finished the filter-and-field pipeline.
C10_Witness ==
    /\ ThresholdAndField(<<"halos", "virial_radius">>)
    /\ size = 1 /\ pc[0] = "returned"
    /\ Len(catalog[0]) >= 2

\* the objects of the run on which every filter returned true
SurvivingObjects ==
    {o \in Chunks \X (0..ChunkLen) :
        \E r \in Ranks : \E j \in 1..Len(processed[r]) :
            Obj(processed[r][j]) = o /\ PassedAll(processed[r][j])}
AllReturned == \A r \in Ranks : pc[r] = "returned"
\* the file of the output directory that rank r's _save names
FileOf(r) == DictGet(files, filename(strip_extension(DsBasename), r))

\* C11: a completed run of two workers with save_catalog leaves exactly two
\* files, both in output_dir/<basename>/, named <basename>.0.h5 and
\* <basename>.1.h5; the file of a rank carries the length of that rank's
\* catalog as num_halos, and the two num_halos add up to the number of objects
\* of the run that passed every filter.  No file is ever shared by two ranks.
C11_OneFilePerWorker ==
    /\ \A a \in 1..Len(files) : \A b \in 1..Len(files) :
           a # b => files[a][1].name[2] # files[b][1].name[2]
    /\ (size = 2 /\ run_args.save_catalog /\ AllReturned) =>
           /\ Len(files) = 2
           /\ \A r \in Ranks :
                  LET fn == filename(strip_extension(DsBasename), r) IN
                  /\ fn \in DictKeys(files)
                  /\ fn.dir = <<"analysis", <<"halos_0", "0">>>>
                  /\ fn.name = << <<"halos_0", "0">>, r, "h5">>
                  /\ FileOf(r).num_halos = Len(catalog[r])
           /\ FileOf(0).num_halos + FileOf(1).num_halos = Cardinality(SurvivingObjects)

\* Two workers have saved their catalogs, both hold objects, and a filter
\* rejected at least one object of the run.
C11_Witness ==
    /\ size = 2 /\ run_args.save_catalog /\ AllReturned
    /\ catalog[0] # <<>> /\ catalog[1] # <<>>
    /\ \E r \in Ranks : \E j \in 1..Len(processed[r]) : FailedSome(processed[r][j])

\* Rank r has written its file in the current run.
HasSaved(r) == run_args.save_catalog /\ pc[r] \in {"exit_barrier", "returned"}
QuantityKeys == {quantities[k] : k \in 1..Len(quantities)}

\* where a key stands first in the quantities list
FirstAt(key) == CHOOSE k \in 1..Len(quantities) :
                    quantities[k] = key /\ \A m \in 1..(k - 1) : quantities[m] # key

\* C12 as stated: the payload _save builds holds, for every configured
\* quantity key, a column as long as the rank's catalog, also when the catalog
\* is empty.
C12_ColumnPerKeyAnySize ==
    \A r \in Ranks :
        HasSaved(r) =>
            \A key \in QuantityKeys :
                /\ key \in DictKeys(FileOf(r).data)
                /\ Len(DictGet(FileOf(r).data, key)) = Len(catalog[r])

\* C12 (amended): when the rank's catalog is not empty the payload holds
\* exactly one column per configured quantity key, in the order in which the
\* keys first stand in the quantities list, and the j-th value of a column is that key's value in the
\* j-th catalog entry; when the catalog is empty the payload holds no column
\* at all.  In both cases num_halos is the catalog's length.
C12_ColumnPerKeyWhenNonEmpty ==
    \A r \in Ranks :
        HasSaved(r) =>
            LET data == FileOf(r).data IN
            /\ FileOf(r).num_halos = Len(catalog[r])
            /\ IF catalog[r] = <<>> THEN data = <<>>
               ELSE /\ DictKeys(data) = QuantityKeys
                    /\ \A a \in 1..Len(data) : \A b \in 1..Len(data) :
                           a # b => data[a][1] # data[b][1]
                    /\ \A a \in 1..Len(data) : \A b \in 1..Len(data) :
                           a < b => FirstAt(data[a][1]) < FirstAt(data[b][1])
                    /\ \A key \in QuantityKeys :
                           /\ Len(DictGet(data, key)) = Len(catalog[r])
                           /\ \A j \in 1..Len(catalog[r]) :
                                  DictGet(data, key)[j] = DictGet(catalog[r][j], key)

\* A rank has saved a catalog of two or more entries that differ in the value
\* of a configured quantity, and another rank has saved an empty catalog.
C12_Witness ==
    /\ size = 2 /\ HasSaved(0) /\ HasSaved(1)
    /\ quantities # <<>>
    /\ Len(catalog[0]) >= 2
    /\ DictGet(catalog[0][1], quantities[1]) # DictGet(catalog[0][2], quantities[1])
    /\ catalog[1] = <<>>

\* the object a retained target stands for
TargetObj(t) == <<t.chunk, t.index>>

\* C13: in a run with save_targets the target list of a rank holds one target
\* per catalog entry of the run, in catalog order: the j-th target is the
\* object behind the j-th entry and carries that entry's quantities, so a
\* target that failed a filter is not in it; in a run without save_targets no
\* step adds a target to (or otherwise changes) the target list.
C13_TargetListMirrorsCatalog ==
    /\ [](\A r \in Ranks :
            (InRun(r) /\ run_args.save_targets) =>
                /\ Len(target_list[r]) = Len(catalog[r])
                /\ \A j \in 1..Len(target_list[r]) :
                       /\ TargetObj(target_list[r][j]) = catalog_src[r][j]
                       /\ target_list[r][j].index = target_list[r][j].object
                       /\ target_list[r][j].quantities = catalog[r][j]
                /\ \A j \in 1..Len(processed[r]) :
                       FailedSome(processed[r][j]) =>
                           \A m \in 1..Len(target_list[r]) :
                               TargetObj(target_list[r][m]) # Obj(processed[r][j]))
    /\ [][~run_args'.save_targets => target_list' = target_list]_vars

\* A rank has finished a run with save_targets in which it kept two targets
\* and a filter rejected another one.
C13_Witness ==
    \E r \in Ranks :
        /\ pc[r] = "returned" /\ run_args.save_targets
        /\ Len(target_list[r]) >= 2
        /\ \E j \in 1..Len(processed[r]) : FailedSome(processed[r][j])

ActionKinds == {"callback", "filter", "quantity", "unknown"}
\* positions of the trace at which an event of one of the kinds stands
At(tr, kinds) == {e \in 1..Len(tr) : tr[e][1] \in kinds}
\* keys of a catalog entry whose value carries units
UnitKeys(entry) == {k \in DictKeys(entry) : has_units(DictGet(entry, k))}
Kept(r) == SelectSeq(processed[r], Appended)

\* C14: in the pass of a target every convert_to_base comes after the last
\* action invoked for the target and before the append to the catalog; a
\* target that failed a filter, or on which an action raised, has none.  A
\* target that is appended has had every action of the list invoked, then
\* exactly one convert_to_base for each of its quantities that carries units
\* (none for the others), then the append; its catalog entry holds those
\* quantities in base units.
C14_NormalizedOnceAfterActions ==
    \A r \in Ranks :
        /\ \A j \in 1..Len(processed[r]) :
               LET rec == processed[r][j]
                   tr == rec.trace IN
               /\ \A a \in At(tr, ActionKinds) : \A n \in At(tr, {"convert_to_base"}) :
                      a < n
               /\ \A n \in At(tr, {"convert_to_base"}) : \A p \in At(tr, {"append"}) :
                      n < p
               /\ (FailedSome(rec) \/ rec.raised) =>
                      At(tr, {"convert_to_base", "append"}) = {}
               /\ At(tr, {"convert_to_base"}) # {} =>
                      /\ Appended(rec)
                      /\ {tr[a][2] : a \in At(tr, ActionKinds)} = 1..Len(actions)
        /\ InRun(r) =>
               /\ Len(Kept(r)) = Len(catalog[r])
               /\ \A m \in 1..Len(catalog[r]) :
                      LET tr == Kept(r)[m].trace IN
                      /\ \A key \in UnitKeys(catalog[r][m]) :
                             /\ Cardinality({n \in At(tr, {"convert_to_base"}) :
                                                 tr[n][3] = key}) = 1
                             /\ DictGet(catalog[r][m], key).unit = "base"
                      /\ \A n \in At(tr, {"convert_to_base"}) :
                             tr[n][3] \in UnitKeys(catalog[r][m])

\* A target with a unit-carrying field quantity and a plain registered
\* quantity has been appended after a filter passed it, and another target of
\* the same rank failed that filter.
C14_Witness ==
    \E r \in Ranks :
        /\ InRun(r) /\ Len(actions) = 3
        /\ actions[1][1] = "filter"
        /\ {"virial_radius", "center_of_mass"} \subseteq QuantityKeys
        /\ \E j \in 1..Len(processed[r]) : FailedSome(processed[r][j])
        /\ \E m \in 1..Len(catalog[r]) :
               /\ UnitKeys(catalog[r][m]) = {"virial_radius"}
               /\ DictKeys(catalog[r][m]) = {"virial_radius", "center_of_mass"}

\* how often chunk.get_data(self.field_quantities) was called for chunk c
TimesRead(c) == Cardinality({j \in 1..Len(get_data_log) : get_data_log[j][2] = c})
\* Rank r is past the read of chunk c (line 318) in the current run.
PastRead(r, c) ==
    \/ chunk_i[r] > c
    \/ chunk_i[r] = c /\ pc[r] \in {"bcast", "process", "barrier", "save",
                                     "exit_barrier", "returned", "aborted"}

\* C15: every chunk.get_data(self.field_quantities) of a run is made by rank
\* 0, at most once per chunk, and exactly once for every chunk rank 0 has got
\* past, whatever the number of workers; a rank that processes a chunk does so
\* after that one read; with a single worker nothing is broadcast.
C15_OnlyRootReadsOncePerChunk ==
    /\ \A j \in 1..Len(get_data_log) : get_data_log[j][1] = 0
    /\ \A c \in Chunks :
           /\ TimesRead(c) <= 1
           /\ PastRead(0, c) => TimesRead(c) = 1
           /\ \A r \in Ranks : HasBegun(r, c) => TimesRead(c) = 1
    /\ size = 1 =>
           /\ \A c \in Chunks : ~bcast_buf[c].sent
           /\ \A r \in Ranks : pc[r] # "bcast"

\* Two workers have finished a run over two chunks with a field quantity
\* requested, and the second worker has processed objects of both chunks.
C15_Witness ==
    /\ size = 2 /\ AllReturned /\ NumChunks >= 2
    /\ field_quantities # <<>>
    /\ HasBegun(1, 1) /\ HasBegun(1, 2)
    /\ Len(get_data_log) = NumChunks

IsPrefix(a, b) == Len(a) <= Len(b) /\ SubSeq(b, 1, Len(a)) = a
\* the tag of the action an add_* method appends
TagOf(op) == IF op = "add_callback" THEN "callback"
             ELSE IF op = "add_filter" THEN "filter" ELSE "quantity"

\* C16: no step removes, replaces or reorders an entry of actions, quantities
\* or field_quantities; an add_callback, add_filter or add_quantity call that
\* returns leaves the entries of actions where they were and adds exactly one
\* entry, of its own kind, at the end; every step of _run, _process_target and
\* _save leaves the three lists unchanged.
C16_AppendOnlyThenFrozen ==
    [][/\ IsPrefix(actions, actions')
       /\ IsPrefix(quantities, quantities')
       /\ IsPrefix(field_quantities, field_quantities')
       /\ (calls' # calls /\ last_call'.op \in {"add_callback", "add_filter", "add_quantity"}) =>
              /\ ~last_call'.raised
              /\ Len(actions') = Len(actions) + 1
              /\ actions'[Len(actions')][1] = TagOf(last_call'.op)
       /\ calls' = calls => UNCHANGED pipeline_vars
       /\ run_vars' # run_vars => UNCHANGED pipeline_vars
      ]_vars

\* add_filter has returned on a pipeline that held an action of another kind,
\* and a run with that pipeline has since processed an object and saved.
C16_Witness ==
    /\ Len(actions) = 2 /\ actions[1][1] # "filter" /\ actions[2][1] = "filter"
    /\ last_call.op = "_run"
    /\ \E r \in Ranks : pc[r] = "returned" /\ processed[r] # <<>> /\ HasSaved(r)

\* the indices of chunk c that rank r has processed, in processing order
IndicesOf(r, c) ==
    LET inC(rec) == rec.chunk = c
        recs == SelectSeq(processed[r], inC) IN
    [j \in 1..Len(recs) |-> recs[j].index]
\* Rank r has left the object loop of chunk c.
LoopDone(r, c) ==
    \/ chunk_i[r] > c
    \/ chunk_i[r] = c /\ pc[r] \in {"barrier", "save", "exit_barrier", "returned"}

ActionKeys == {actions[k][2][1] : k \in {n \in 1..Len(actions) : actions[n][1] = "quantity"}}

\* C18: the keys of the quantities list are the keys of the quantity actions;
\* every catalog entry of a run maps exactly these keys, so that _save finds
\* every key in every entry: a rank leaves a run by an exception only from an
\* action of _process_target, never from the column build, and a rank that
\* has got to saving has written its file.
C18_EveryEntryHasEveryKey ==
    /\ QuantityKeys = ActionKeys
    /\ \A r \in Ranks :
           /\ InRun(r) =>
                  \A m \in 1..Len(catalog[r]) : DictKeys(catalog[r][m]) = QuantityKeys
           /\ ~_save(catalog[r], quantities, r).raised
           /\ pc[r] = "aborted" =>
                  /\ processed[r] # <<>>
                  /\ LastRec(processed[r]).raised
           /\ HasSaved(r) =>
                  filename(strip_extension(DsBasename), r) \in DictKeys(files)

\* The pipeline holds a quantity and an action of another kind; a rank has
\* saved a catalog of two entries and a filter has rejected another object.
C18_Witness ==
    \E r \in Ranks :
        /\ HasSaved(r) /\ pc[r] = "returned"
        /\ Len(quantities) >= 1 /\ Len(actions) > Len(quantities)
        /\ Len(catalog[r]) >= 2
        /\ \E j \in 1..Len(processed[r]) : FailedSome(processed[r][j])

\* the catalog of rank r holds the survivors of the current run and no others
CatalogOfThisRun(r) ==
    /\ catalog_src[r] = Survivors(r)
    /\ Len(catalog[r]) = Len(catalog_src[r])
\* every target of the target list of rank r survived the current run
TargetsOfThisRun(r) ==
    \A j \in 1..Len(target_list[r]) :
        \E m \in 1..Len(Survivors(r)) : Survivors(r)[m] = TargetObj(target_list[r][j])

\* C19: whenever _run has returned, however many runs went before, the
\* catalog of a rank holds exactly the survivors of the run that has just
\* returned, and every target of its target list is a survivor of that run.
C19_OnlyMostRecentRun ==
    \A r \in Ranks :
        pc[r] = "returned" => (CatalogOfThisRun(r) /\ TargetsOfThisRun(r))

\* The part of C19 about the catalog: it is emptied at the start of every run.
C19_CatalogOfMostRecentRun ==
    \A r \in Ranks : pc[r] = "returned" => CatalogOfThisRun(r)

KnownKinds == {"callback", "filter", "quantity"}

\* C20: every entry of the action list carries the tag callback, filter or
\* quantity, whatever add_callback, add_filter, add_quantity and add_recipe
\* calls built the list; no _process_target call of a run meets an action of
\* another kind, so none ends in the RuntimeError of the last branch.
C20_OnlyKnownActionKinds ==
    /\ \A k \in 1..Len(actions) : actions[k][1] \in KnownKinds
    /\ \A r \in Ranks : \A j \in 1..Len(processed[r]) :
           LET tr == processed[r][j].trace IN
           /\ At(tr, {"unknown"}) = {}
           /\ \A e \in At(tr, ActionKinds) : actions[tr[e][2]][1] = tr[e][1]

\* A run has taken an object through a callback, a filter and a quantity that
\* a recipe and add_callback put into the action list.
C20_Witness ==
    /\ {actions[k][1] : k \in 1..Len(actions)} = KnownKinds
    /\ \E r \in Ranks : \E j \in 1..Len(processed[r]) :
           /\ Appended(processed[r][j])
           /\ Cardinality(At(processed[r][j].trace, ActionKinds)) = 3
====
